---- MODULE Spec2Model ----
(***************************************************************************)
(* Model of the coordinate-conversion facade of oahumap/proj (Convert,    *)
(* Inverse, newConversion, conversion.convert, conversion.inverse) and of  *)
(* the two projection families of the operations package, Winkel Tripel   *)
(* (Wintri.go) and Lambert Conformal Conic (LCC).                          *)
(*                                                                         *)
(* NUMBERS.  The program computes in float64.  The model computes in      *)
(* decimal fixed point: the integer v stands for the real v / Scale, so   *)
(* one unit is 1e-4.  Every float64 expression of the source is           *)
(* translated operator by operator (MulS for *, DivS for /, Sin for       *)
(* math.Sin, ...).  All intermediate values stay inside 32 bits.  The      *)
(* thresholds of the source that lie below one unit (1e-14, 1e-15,        *)
(* 1e-18, 1e-10) become one unit: "smaller than the threshold" reads       *)
(* "zero at the model's resolution".                                       *)
(***************************************************************************)
EXTENDS Integers, Sequences, FiniteSets, TLC

(***************************************************************************)
(* Fixed-point arithmetic                                                  *)
(***************************************************************************)
\* one unit is 1 / Scale; Scale = ScaleRoot * ScaleRoot
ScaleRoot == 100
Scale == ScaleRoot * ScaleRoot

\* math.Pi, math.Pi * 0.5, 2 * math.Pi
PI == 31416
HALFPI == 15708
TWOPI == 62832

Abs(a) == IF a >= 0 THEN a ELSE -a
Sgn(a) == IF a > 0 THEN 1 ELSE IF a < 0 THEN -1 ELSE 0
Max(a, b) == IF a >= b THEN a ELSE b
Min(a, b) == IF a <= b THEN a ELSE b

\* v / d for an integer d, rounded toward zero (x * 0.5, x / 6, ...)
Quot(v, d) == Sgn(v) * (Abs(v) \div d)

\* a * b of two non-negative fixed-point values, rounded to the nearest unit;
\* the operands are split so that no partial product leaves 32 bits
MulU(a, b) ==
    LET ah == a \div ScaleRoot
        al == a % ScaleRoot
        bh == b \div ScaleRoot
        bl == b % ScaleRoot
    IN  ah * bh
          + ((ah * bl + al * bh + ((al * bl + (Scale \div 2)) \div ScaleRoot))
               \div ScaleRoot)

\* float64 multiplication a * b
MulS(a, b) == Sgn(a) * Sgn(b) * MulU(Abs(a), Abs(b))

\* the n decimal digits after the point of r / b (r < b), rounded
RECURSIVE DivDigits(_, _, _)
DivDigits(r, b, n) ==
    IF n = 0
    THEN (IF 2 * r >= b THEN 1 ELSE 0)
    ELSE LET t == r * 10
             p == IF n = 4 THEN 1000 ELSE IF n = 3 THEN 100
                  ELSE IF n = 2 THEN 10 ELSE 1
         IN  (t \div b) * p + DivDigits(t % b, b, n - 1)

DivU(a, b) == (a \div b) * Scale + DivDigits(a % b, b, 4)

\* float64 division a / b for b # 0
DivS(a, b) == Sgn(a) * Sgn(b) * DivU(Abs(a), Abs(b))

\* integer square root (Newton)
RECURSIVE ISqrtIter(_, _)
ISqrtIter(n, x) ==
    LET y == (x + (n \div x)) \div 2
    IN  IF y >= x THEN x ELSE ISqrtIter(n, y)

ISqrt(n) == IF n = 0 THEN 0 ELSE ISqrtIter(n, n)

\* math.Sqrt(a) of a fixed-point value a >= 0
SqrtS(a) == IF a < 20000000 THEN ISqrt(a * 100) * 10 ELSE ISqrt(a) * ScaleRoot

\* math.Sqrt(a*a + b*b)
RECURSIVE Hypot(_, _)
Hypot(a, b) ==
    IF Abs(a) > 30000 \/ Abs(b) > 30000
    THEN 10 * Hypot(Quot(a, 10), Quot(b, 10))
    ELSE ISqrt(a * a + b * b)

\* x reduced into [-PI, PI) modulo 2 PI
WrapPi(x) == ((x + PI) % TWOPI) - PI

\* <<p, p m, p m m, ...>>: the n first values
RECURSIVE Powers(_, _, _)
Powers(p, m, n) ==
    IF n = 0 THEN <<>> ELSE <<p>> \o Powers(MulS(p, m), m, n - 1)

\* <<x, x^3, x^5, ...>>: the n first odd powers
OddPowers(x, n) == Powers(x, MulS(x, x), n)

\* Taylor series of sin on [-PI/2, PI/2]
SinPoly(p) ==
    p[1] - Quot(p[2], 6) + Quot(p[3], 120) - Quot(p[4], 5040)
      + Quot(p[5], 362880)

SinSeries(x) == SinPoly(OddPowers(x, 5))

\* sin r = sin(PI - r) = sin(-PI - r): r in [-PI, PI) folded into [-PI/2, PI/2]
SinFold(r) ==
    IF r > HALFPI THEN PI - r ELSE IF r < -HALFPI THEN (-PI) - r ELSE r

\* math.Sin
Sin(x) == SinSeries(SinFold(WrapPi(x)))

\* math.Cos
Cos(x) == Sin(x + HALFPI)

\* math.Tan
Tan(x) == DivS(Sin(x), Cos(x))

\* series of atan on [-0.42, 0.42]
AtanPoly(p) ==
    p[1] - Quot(p[2], 3) + Quot(p[3], 5) - Quot(p[4], 7) + Quot(p[5], 9)

AtanSeries(x) == AtanPoly(OddPowers(x, 5))

RECURSIVE AtanU(_)
AtanU(x) ==
    IF x > Scale THEN HALFPI - AtanU(DivS(Scale, x))
    ELSE IF x > 4142 THEN (PI \div 4) + AtanSeries(DivS(x - Scale, x + Scale))
    ELSE AtanSeries(x)

\* math.Atan
Atan(x) == Sgn(x) * AtanU(Abs(x))

\* math.Atan2(y, x)
Atan2(y, x) ==
    IF x = 0 THEN Sgn(y) * HALFPI
    ELSE Atan(DivS(y, x)) + (IF x > 0 THEN 0 ELSE IF y >= 0 THEN PI ELSE -PI)

\* math.Acos(c) for -1 <= c <= 1
Acos(c) == Atan2(ISqrt(Scale * Scale - c * c), c)

\* math.Ln2
LN2 == 6931

\* math.Log(x) for x > 0: x = m * 2^k with 1 <= m < 2, and the atanh series
LnPoly(p, k) ==
    2 * (p[1] + Quot(p[2], 3) + Quot(p[3], 5) + Quot(p[4], 7)) + k * LN2

RECURSIVE LnNorm(_, _)
LnNorm(x, k) ==
    IF x >= 2 * Scale THEN LnNorm(x \div 2, k + 1)
    ELSE IF x < Scale THEN LnNorm(x * 2, k - 1)
    ELSE LnPoly(OddPowers(DivS(x - Scale, x + Scale), 4), k)

Ln(x) == LnNorm(x, 0)

ExpPoly(p) ==
    Scale + p[1] + Quot(p[2], 2) + Quot(p[3], 6) + Quot(p[4], 24)
      + Quot(p[5], 120) + Quot(p[6], 720)

ExpSeries(r) == ExpPoly(Powers(r, r, 6))

RECURSIVE Pow2(_, _)
Pow2(v, k) ==
    IF k = 0 THEN v
    ELSE IF k > 0 THEN Pow2(v * 2, k - 1)
    ELSE Pow2(v \div 2, k + 1)

\* math.Exp(x): x = k ln 2 + r with 0 <= r < ln 2
Exp(x) ==
    LET k == x \div LN2
    IN  Pow2(ExpSeries(x - k * LN2), k)

\* math.Pow(t, n) for t >= 0 (math.Pow(0, n) = 0 for n > 0)
Pow(t, n) == IF t = 0 THEN 0 ELSE Exp(MulS(n, Ln(t)))

(***************************************************************************)
(* float64 values outside the numbers: NaN is the result of 0 / 0.         *)
(***************************************************************************)
NaN == -2147483647

(***************************************************************************)
(* Errors.  nil is Go's nil error; the others are the error values the     *)
(* facade and the operations return.                                        *)
(***************************************************************************)
nil == "nil"
Nil == "Nil"   \* a nil pointer / nil slice

ErrOddLonLat == "input array of lon/lat values must be an even number"
ErrOddXY == "input array of x/y values must be an even number"
ErrNotInitialized == "conversion not initialized"
ErrNotSupported == "projection type is not supported"
MalformedParameter == "MalformedParameter"
UnsupportedProjection == "UnsupportedProjection"
InvalidArg == "InvalidArg"
ToleranceCondition == "ToleranceCondition"

(***************************************************************************)
(* support: the definition string and its typed accessors.                 *)
(* A definition string is the sequence of its tokens; a token is           *)
(* [key, val, isNum]: a number (degrees and lengths in fixed point, the    *)
(* semi-axes a and b in kilometres) or a name.  The empty token has the    *)
(* empty key.                                                              *)
(***************************************************************************)
Str(k, v) == [key |-> k, val |-> v, isNum |-> FALSE]
Num(k, v) == [key |-> k, val |-> v, isNum |-> TRUE]
EmptyToken == [key |-> "", val |-> "", isNum |-> FALSE]

\* support.NewProjString: the parameter set, the last token of a key winning
NewProjString(proj4) ==
    IF \E j \in 1..Len(proj4) : proj4[j].key = ""
    THEN [err |-> MalformedParameter, ps |-> Nil]
    ELSE [err |-> nil,
          ps  |-> [k \in {proj4[j].key : j \in 1..Len(proj4)} |->
                     proj4[CHOOSE j \in 1..Len(proj4) :
                             /\ proj4[j].key = k
                             /\ \A m \in (j + 1)..Len(proj4) : proj4[m].key # k]]]

\* ProjString.GetAsString: (value, present)
GetAsString(ps, key) ==
    IF key \in DOMAIN ps /\ ~ps[key].isNum
    THEN [val |-> ps[key].val, ok |-> TRUE]
    ELSE [val |-> "", ok |-> FALSE]

\* ProjString.GetAsFloat: (value, present); a value that is no number is absent
GetAsFloat(ps, key) ==
    IF key \in DOMAIN ps /\ ps[key].isNum
    THEN [val |-> ps[key].val, ok |-> TRUE]
    ELSE [val |-> 0, ok |-> FALSE]

\* support.DDToR: degrees to radians
DDToR(deg) == IF deg = NaN THEN NaN ELSE Quot(MulS(deg, PI), 180)

\* support.RToDD: radians to degrees
RToDD(rad) == IF rad = NaN THEN NaN ELSE DivS(rad * 180, PI)

\* support.Tsfn(phi, sinphi, e)
Tsfn(phi, sinphi, e) ==
    LET sp == MulS(sinphi, e)
    IN  DivS(Tan(Quot(HALFPI - phi, 2)),
             Pow(DivS(Scale - sp, Scale + sp), Quot(e, 2)))

\* support.Msfn(sinphi, cosphi, es)
Msfn(sinphi, cosphi, es) ==
    DivS(cosphi, SqrtS(Scale - MulS(es, MulS(sinphi, sinphi))))

(***************************************************************************)
(* core: the ellipsoid of a System                                         *)
(***************************************************************************)
\* GRS80: es = 0.00669438, e = 0.0818192
GRS80Es == 67
GRS80E == 818

\* the Ellipsoid of a parameter set: a named ellipsoid, a and b, a and rf,
\* or a alone (a sphere); InvalidArg when no axis is given
NewEllipsoid(ps) ==
    LET ellps == GetAsString(ps, "ellps")
        a     == GetAsFloat(ps, "a")
        b     == GetAsFloat(ps, "b")
        rf    == GetAsFloat(ps, "rf")
    IN  IF ellps.ok /\ ellps.val = "GRS80"
        THEN [err |-> nil, Ellipsoid |-> [Es |-> GRS80Es, E |-> GRS80E]]
        ELSE IF a.ok /\ a.val > 0 /\ b.ok /\ b.val > 0 /\ b.val <= a.val
        THEN LET r  == DivS(b.val, a.val)
                 es == Scale - MulS(r, r)
             IN  [err |-> nil, Ellipsoid |-> [Es |-> es, E |-> SqrtS(es)]]
        ELSE IF a.ok /\ a.val > 0 /\ rf.ok /\ rf.val > 0
        THEN LET f  == DivS(Scale, rf.val)
                 es == 2 * f - MulS(f, f)
             IN  [err |-> nil, Ellipsoid |-> [Es |-> es, E |-> SqrtS(es)]]
        ELSE IF a.ok /\ a.val > 0
        THEN [err |-> nil, Ellipsoid |-> [Es |-> 0, E |-> 0]]
        ELSE [err |-> InvalidArg, Ellipsoid |-> Nil]

\* float64 division where the divisor may be zero: 0 / 0 is NaN
FDiv(a, b) == IF a = NaN \/ b = NaN \/ b = 0 THEN NaN ELSE DivS(a, b)

(***************************************************************************)
(* operations/Wintri.go                                                    *)
(***************************************************************************)
\* common.go: eps10 = 1.0e-10, below the model's resolution: one unit
eps10 == 1

\* Wintri.Inverse: maxIter, tolerance (1e-14: one unit)
maxIter == 30
tolerance == 1

\* Wintri.Inverse: the divergence threshold 10 and the reset fraction 0.9
divergence == 100000
resetFraction == 9000

\* Wintri.Inverse: the finite-difference step, 1e-8 up to 1e-6 in the source.
\* A difference quotient needs a step of many units, as 1e-8 is many ulps of
\* a float64: the model takes 100 units, and 100 times that as the cap.
deltaMin == 100
deltaMax == 10000

\* Wintri.Inverse: the Jacobian determinant's threshold (1e-15: one unit)
detMin == 1

\* Wintri.Inverse: the step size 0.1 above which the step is damped by 0.5
dampLimit == 1000
dampHalf == 5000

\* x / op.cosLat1.  math.Cos(math.Pi/2) is 6.1e-17 in float64, not 0, so the
\* quotient of 0 is 0; the model holds that cosine as 0 and is used with a
\* zero cosine only for x = 0
DivCos(x, cosLat1) == IF cosLat1 = 0 THEN 0 ELSE DivS(x, cosLat1)

\* op.lat1: math.Acos(2.0 / math.Pi), or lat_1 when the definition has it
wintriLat1(ps) ==
    IF GetAsFloat(ps, "lat_1").ok THEN DDToR(GetAsFloat(ps, "lat_1").val)
    ELSE Acos(DivS(2 * Scale, PI))

\* math.Copysign(math.Pi * 0.5, op.lat1) when |op.lat1| > math.Pi * 0.5
wintriClamp(lat1) == IF Abs(lat1) > HALFPI THEN Sgn(lat1) * HALFPI ELSE lat1

\* the operation with its fields set
wintriFields(system, lat1) ==
    [err    |-> nil,
     system |-> system,
     op     |-> [family |-> "wintri", System |-> system, lat1 |-> lat1,
                 cosLat1 |-> Cos(lat1)]]

\* (op *Wintri) wintriSetup: forces the sphere (Es only), then lat1, cosLat1
wintriSetup(system) ==
    wintriFields([system EXCEPT !.Ellipsoid.Es = 0],
                 wintriClamp(wintriLat1(system.ProjString)))

\* NewWintri
NewWintri(system) == wintriSetup(system)

\* Forward, lines 70-79: x2, y2 with factor, and the mean with (x1, y1)
WintriForwardFactor(lon, lat, x1, cosLat, factor) ==
    [err |-> nil,
     X |-> Quot(x1 + MulS(MulS(2 * cosLat, Sin(Quot(lon, 2))), factor), 2),
     Y |-> Quot(lat + MulS(Sin(lat), factor), 2)]

\* Forward, lines 65-69: sinAlpha < eps10
WintriForwardSin(lon, lat, x1, cosLat, alpha, sinAlpha) ==
    IF sinAlpha < eps10
    THEN [err |-> nil, X |-> Quot(x1 + 0, 2), Y |-> Quot(lat + 0, 2)]
    ELSE WintriForwardFactor(lon, lat, x1, cosLat, DivS(alpha, sinAlpha))

\* Forward, lines 61-64: alpha < eps10
WintriForwardAitoff(lon, lat, x1, cosLat, alpha) ==
    IF alpha < eps10
    THEN [err |-> nil, X |-> Quot(x1 + lon, 2), Y |-> Quot(lat + lat, 2)]
    ELSE WintriForwardSin(lon, lat, x1, cosLat, alpha, Sin(alpha))

\* (op *Wintri) Forward
WintriForward(op, lp) ==
    WintriForwardAitoff(lp.Lam, lp.Phi, MulS(lp.Lam, op.cosLat1), Cos(lp.Phi),
                        Acos(MulS(Cos(lp.Phi), Cos(Quot(lp.Lam, 2)))))

(***************************************************************************)
(* operations: Lambert Conformal Conic                                     *)
(***************************************************************************)
\* LCCIterationEpsilon = 1e-18: one unit; the bound of `for range 10`
LCCIterationEpsilon == 1
lccMaxIter == 10

\* lccSetup, lines 333-363: the fields read from the definition
lccFields(system, ps) ==
    [family  |-> "lcc", System |-> system,
     phi0    |-> DDToR(GetAsFloat(ps, "lat_0").val),
     phi1    |-> DDToR(GetAsFloat(ps, "lat_1").val),
     phi2    |-> DDToR(IF GetAsFloat(ps, "lat_2").ok
                       THEN GetAsFloat(ps, "lat_2").val
                       ELSE GetAsFloat(ps, "lat_1").val),
     lambda0 |-> DDToR(GetAsFloat(ps, "lon_0").val),
     x0      |-> IF GetAsFloat(ps, "x_0").ok THEN GetAsFloat(ps, "x_0").val ELSE 0,
     y0      |-> IF GetAsFloat(ps, "y_0").ok THEN GetAsFloat(ps, "y_0").val ELSE 0]

\* lccSetup, line 376: op.rho0
lccOrigin(op, n, F, t0) ==
    [err    |-> nil,
     system |-> op.System,
     op     |-> [family |-> "lcc", System |-> op.System,
                 n |-> n, F |-> F,
                 rho0 |-> IF F = NaN THEN NaN ELSE MulS(F, Pow(t0, n)),
                 lambda0 |-> op.lambda0, phi0 |-> op.phi0, phi1 |-> op.phi1,
                 phi2 |-> op.phi2, x0 |-> op.x0, y0 |-> op.y0]]

\* lccSetup, line 373: op.F
lccConstant(op, n, m1, t1, t0) ==
    lccOrigin(op, n, IF n = NaN THEN NaN ELSE FDiv(m1, MulS(n, Pow(t1, n))), t0)

\* lccSetup, line 371: op.n
lccCone(op, m1, t1, m2, t2, t0) ==
    lccConstant(op, FDiv(Ln(DivS(m1, m2)), Ln(DivS(t1, t2))), m1, t1, t0)

\* lccSetup, lines 365-370 and 375: m1, t1, m2, t2 and t0
lccParallels(op, PE) ==
    lccCone(op,
            Msfn(Sin(op.phi1), Cos(op.phi1), PE.Es),
            Tsfn(op.phi1, Sin(op.phi1), PE.E),
            Msfn(Sin(op.phi2), Cos(op.phi2), PE.Es),
            Tsfn(op.phi2, Sin(op.phi2), PE.E),
            Tsfn(op.phi0, Sin(op.phi0), PE.E))

\* (op *LCC) lccSetup
lccSetup(system) ==
    IF \/ ~GetAsFloat(system.ProjString, "lat_0").ok
       \/ ~GetAsFloat(system.ProjString, "lat_1").ok
       \/ ~GetAsFloat(system.ProjString, "lon_0").ok
    THEN [err |-> InvalidArg, system |-> system,
          op |-> [family |-> "lcc", System |-> system]]
    ELSE lccParallels(lccFields(system, system.ProjString), system.Ellipsoid)

\* NewLCC
NewLCC(system) == lccSetup(system)

\* Forward, lines 297-298: xy from rho
LCCForwardPolar(op, lp, rho) ==
    [err |-> nil,
     X   |-> MulS(rho, Sin(MulS(op.n, lp.Lam))),
     Y   |-> op.rho0 - MulS(rho, Cos(MulS(op.n, lp.Lam)))]

\* (op *LCC) Forward
LCCForward(op, lp) ==
    IF op.n = NaN \/ op.F = NaN \/ op.rho0 = NaN
    THEN [err |-> nil, X |-> NaN, Y |-> NaN]
    ELSE LCCForwardPolar(op, lp,
             MulS(op.F, Pow(Tsfn(lp.Phi, Sin(lp.Phi), op.System.Ellipsoid.E),
                            op.n)))

(***************************************************************************)
(* Wintri.Inverse, one loop iteration at a time.  The frame of a call is   *)
(* [x, y, phi, lam, iter, status, ...]: the target, the estimate, the      *)
(* number of loop iterations begun and where the call stands ("loop",      *)
(* "break" after the convergence test, "error").  kind, dx, dy and det     *)
(* record what the last iteration found; resets and steps count the        *)
(* iterations of each kind.                                                *)
(***************************************************************************)
Clamp(v, lo, hi) == IF v > hi THEN hi ELSE IF v < lo THEN lo ELSE v

\* for lam > math.Pi { lam -= 2 * math.Pi }; for lam < -math.Pi { lam += ... }
RECURSIVE WrapLam(_)
WrapLam(lam) ==
    IF lam > PI THEN WrapLam(lam - TWOPI)
    ELSE IF lam < -PI THEN WrapLam(lam + TWOPI)
    ELSE lam

\* Wintri.Inverse, lines 86-105: the seed, clamped
WintriSeed(op, xy) ==
    [x |-> xy.X, y |-> xy.Y,
     phi |-> Clamp(xy.Y, -HALFPI, HALFPI),
     lam |-> Clamp(DivCos(xy.X, op.cosLat1), -PI, PI),
     iter |-> 0, status |-> "loop", kind |-> "seed",
     dx |-> 0, dy |-> 0, det |-> 0, resets |-> 0, steps |-> 0, err |-> nil]

\* the residual of the estimate (phi, lam) against the target
WintriResidual(f, testXY) ==
    [err |-> testXY.err, dx |-> testXY.X - f.x, dy |-> testXY.Y - f.y]

WintriConverged(r) == Abs(r.dx) < tolerance /\ Abs(r.dy) < tolerance
WintriDiverged(r) == Abs(r.dx) > divergence \/ Abs(r.dy) > divergence

\* delta, line 126
WintriDelta(f) ==
    Max(deltaMin, Min(deltaMax, MulS(Max(Abs(f.phi), Abs(f.lam)), deltaMin)))

\* the difference quotients and their determinant, lines 133-146
WintriQuotients(testXY, testXY1, testXY2, delta) ==
    LET dxdPhi == DivS(testXY1.X - testXY.X, delta)
        dydPhi == DivS(testXY1.Y - testXY.Y, delta)
        dxdLam == DivS(testXY2.X - testXY.X, delta)
        dydLam == DivS(testXY2.Y - testXY.Y, delta)
    IN  [err1 |-> testXY1.err, err2 |-> testXY2.err,
         dxdPhi |-> dxdPhi, dydPhi |-> dydPhi, dxdLam |-> dxdLam,
         dydLam |-> dydLam,
         det |-> MulS(dxdPhi, dydLam) - MulS(dydPhi, dxdLam)]

\* the finite-difference Jacobian at the estimate
WintriJacobian(op, f, testXY, delta) ==
    WintriQuotients(testXY,
                    WintriForward(op, [Phi |-> f.phi + delta, Lam |-> f.lam]),
                    WintriForward(op, [Phi |-> f.phi, Lam |-> f.lam + delta]),
                    delta)

\* the damped Newton step and the re-clamping, lines 151-173
WintriNewton(f, dphi, dlam, damping) ==
    [f EXCEPT !.phi = Clamp(f.phi - MulS(damping, dphi), -HALFPI, HALFPI),
              !.lam = WrapLam(f.lam - MulS(damping, dlam)),
              !.kind = "step", !.steps = f.steps + 1]

\* the divergence reset, lines 120-124
WintriReset(op, f) ==
    [f EXCEPT !.phi = MulS(f.y, resetFraction),
              !.lam = DivCos(MulS(f.x, resetFraction), op.cosLat1),
              !.kind = "reset", !.resets = f.resets + 1]

\* damping, lines 154-157
WintriDamping(dphi, dlam) ==
    IF Abs(dphi) > dampLimit \/ Abs(dlam) > dampLimit THEN dampHalf ELSE Scale

\* the step with its damping
WintriStep(f, dphi, dlam) == WintriNewton(f, dphi, dlam, WintriDamping(dphi, dlam))

\* dphi and dlam, lines 151-152, then the step
WintriSolve(f, r, J) ==
    WintriStep(f,
               DivS(MulS(J.dydLam, r.dx) - MulS(J.dxdLam, r.dy), J.det),
               DivS(MulS(J.dxdPhi, r.dy) - MulS(J.dydPhi, r.dx), J.det))

\* the loop body from the Jacobian on, lines 128-173
WintriCorrect(f, r, J) ==
    IF J.err1 # nil \/ J.err2 # nil
    THEN [f EXCEPT !.kind = "retry"]
    ELSE IF Abs(J.det) < detMin
    THEN [f EXCEPT !.status = "error", !.kind = "singular", !.det = J.det,
                   !.err = ToleranceCondition]
    ELSE WintriSolve([f EXCEPT !.det = J.det], r, J)

\* the loop body with the determinant tested before the divergence reset
WintriBodyJacobianFirst(op, f, f1, testXY, r) ==
    IF r.err # nil
    THEN [f1 EXCEPT !.status = "error", !.kind = "forward", !.err = r.err]
    ELSE IF WintriConverged(r)
    THEN [f1 EXCEPT !.status = "break", !.kind = "converged"]
    ELSE IF Abs(WintriJacobian(op, f, testXY, WintriDelta(f)).det) < detMin
    THEN [f1 EXCEPT !.status = "error", !.kind = "singular",
                    !.err = ToleranceCondition]
    ELSE IF WintriDiverged(r)
    THEN WintriReset(op, f1)
    ELSE WintriCorrect(f1, r, WintriJacobian(op, f, testXY, WintriDelta(f)))

\* the loop body from the residual on, lines 109-173.  f1 is the frame with
\* the iteration counted
WintriBody(op, f, f1, testXY, r) ==
    IF r.err # nil
    THEN [f1 EXCEPT !.status = "error", !.kind = "forward", !.err = r.err]
    ELSE IF WintriConverged(r)
    THEN [f1 EXCEPT !.status = "break", !.kind = "converged"]
    ELSE IF WintriDiverged(r)
    THEN WintriReset(op, f1)
    ELSE WintriCorrect(f1, r, WintriJacobian(op, f, testXY, WintriDelta(f)))

\* the iteration counted and the residual taken, lines 108-115
WintriTest(op, f, testXY) ==
    WintriBody(op, f,
               [f EXCEPT !.iter = f.iter + 1,
                         !.dx = testXY.X - f.x, !.dy = testXY.Y - f.y,
                         !.det = 0],
               testXY, WintriResidual(f, testXY))

\* one iteration of the loop of Wintri.Inverse, lines 107-174
WintriIteration(op, f) ==
    WintriTest(op, f, WintriForward(op, [Phi |-> f.phi, Lam |-> f.lam]))

\* the loop of Wintri.Inverse running while iter <= maxIter
WintriLoopDoneLate(f) == f.status # "loop" \/ f.iter > maxIter

\* Wintri.Inverse leaves its loop: the test broke it, an error returned, or
\* maxIter is used up
WintriLoopDone(f) == f.status # "loop" \/ f.iter >= maxIter

\* what Wintri.Inverse returns: lines 148 and 176-179
WintriResult(f) ==
    IF f.status = "error"
    THEN [err |-> f.err, hasLP |-> FALSE, Lam |-> 0, Phi |-> 0]
    ELSE [err |-> nil, hasLP |-> TRUE, Lam |-> f.lam, Phi |-> f.phi]

(***************************************************************************)
(* LCC.Inverse: the closed part, then the latitude loop one correction at  *)
(* a time.  The frame is [tPrime, lon, lat, iter, status].                 *)
(***************************************************************************)
\* LCC.Inverse, lines 316-318: lon and the first lat
LCCFrame(op, tPrime, thetaPrime) ==
    [tPrime |-> tPrime,
     lon    |-> DivS(thetaPrime, op.n) - op.lambda0,
     lat    |-> HALFPI - 2 * Atan(tPrime),
     iter   |-> 0, status |-> "loop"]

\* LCC.Inverse, lines 305-314: rPrime, tPrime, thetaPrime
LCCPolar(op, deltaE, deltaN) ==
    LCCFrame(op,
             Pow(DivS(IF op.n < 0 THEN -Hypot(deltaE, deltaN)
                      ELSE Hypot(deltaE, deltaN), op.F),
                 DivS(Scale, op.n)),
             Atan2(deltaE, deltaN))

\* LCC.Inverse up to its loop, lines 305-318
LCCSeed(op, xy) ==
    IF op.n = NaN \/ op.F = NaN \/ op.rho0 = NaN \/ xy.X = NaN \/ xy.Y = NaN
    THEN [tPrime |-> NaN, lon |-> NaN, lat |-> NaN, iter |-> 0,
          status |-> "loop"]
    ELSE LCCPolar(op, xy.X, op.rho0 - xy.Y)

\* latNew, line 320; esin is op.System.Ellipsoid.E * math.Sin(lat)
LCCLatNew(tPrime, e, esin) ==
    HALFPI - 2 * Atan(MulS(tPrime,
                           Pow(DivS(Scale - esin, Scale + esin), Quot(e, 2))))

\* LCC.Inverse, lines 322-326: the test, and lat = latNew
LCCCorrect(f, latNew) ==
    [f EXCEPT !.iter = f.iter + 1, !.lat = latNew,
              !.status = IF Abs(latNew - f.lat) < LCCIterationEpsilon
                         THEN "break" ELSE "loop"]

\* one latitude correction, lines 319-327
LCCIteration(op, f) ==
    IF f.lat = NaN
    THEN [f EXCEPT !.iter = f.iter + 1]
    ELSE LCCCorrect(f, LCCLatNew(f.tPrime, op.System.Ellipsoid.E,
                                 MulS(op.System.Ellipsoid.E, Sin(f.lat))))

LCCLoopDone(f) == f.status = "break" \/ f.iter >= lccMaxIter

\* return &core.CoordLP{Phi: lat, Lam: lon}, nil
LCCResult(f) == [err |-> nil, hasLP |-> TRUE, Lam |-> f.lon, Phi |-> f.lat]

(***************************************************************************)
(* The two Inverse methods as functions: the loop run to its end           *)
(***************************************************************************)
RECURSIVE WintriRun(_, _)
WintriRun(op, f) ==
    IF WintriLoopDone(f) THEN f ELSE WintriRun(op, WintriIteration(op, f))

\* (op *Wintri) Inverse
WintriInverse(op, xy) == WintriResult(WintriRun(op, WintriSeed(op, xy)))

RECURSIVE LCCRun(_, _)
LCCRun(op, f) == IF LCCLoopDone(f) THEN f ELSE LCCRun(op, LCCIteration(op, f))

\* (op *LCC) Inverse
LCCInverse(op, xy) == LCCResult(LCCRun(op, LCCSeed(op, xy)))

(***************************************************************************)
(* core: the operations table and NewSystem                                *)
(***************************************************************************)
\* core.RegisterConvertLPToXY(name, description, ..., constructor)
RegisterConvertLPToXY(reg, name, description, constructor) ==
    IF name \in DOMAIN reg
    THEN [reg EXCEPT ![name].count = @ + 1]
    ELSE reg @@ (name :> [kind |-> "ConvertLPToXY",
                          description |-> description,
                          constructor |-> constructor, count |-> 1])

\* OperationDescription.IsConvertLPToXY
IsConvertLPToXY(desc) == desc.kind = "ConvertLPToXY"

\* the call of a registered constructor
Construct(constructor, system) ==
    IF constructor = "NewWintri" THEN NewWintri(system) ELSE NewLCC(system)

NoDescription == [kind |-> "none"]

\* core.NewSystem: what the family's constructor returned
NewSystemOperation(desc, made) ==
    IF made.err # nil
    THEN [err |-> made.err, lookups |-> 1, desc |-> desc, system |-> Nil,
          op |-> Nil]
    ELSE [err |-> nil, lookups |-> 1, desc |-> desc, system |-> made.system,
          op |-> made.op]

\* core.NewSystem: the ellipsoid, then the constructor
NewSystemEllipsoid(ps, desc, ell) ==
    IF ell.err # nil
    THEN [err |-> ell.err, lookups |-> 1, desc |-> desc, system |-> Nil,
          op |-> Nil]
    ELSE NewSystemOperation(desc,
             Construct(desc.constructor,
                       [ProjString |-> ps, Ellipsoid |-> ell.Ellipsoid]))

\* core.NewSystem(ps): the family of +proj looked up in the table, the
\* ellipsoid, then the family's constructor
NewSystem(ps, reg) ==
    IF ~GetAsString(ps, "proj").ok
    THEN [err |-> UnsupportedProjection, lookups |-> 0, desc |-> NoDescription,
          system |-> Nil, op |-> Nil]
    ELSE IF GetAsString(ps, "proj").val \notin DOMAIN reg
    THEN [err |-> UnsupportedProjection, lookups |-> 1, desc |-> NoDescription,
          system |-> Nil, op |-> Nil]
    ELSE NewSystemEllipsoid(ps, reg[GetAsString(ps, "proj").val], NewEllipsoid(ps))

(***************************************************************************)
(* package proj: the facade                                                *)
(***************************************************************************)
GeographicAliases == {"longlat", "latlong", "latlon", "lonlat"}

\* isGeographicSystem comparing with the first alias only
isGeographicLongLat(proj4) ==
    LET p == NewProjString(proj4)
    IN  IF p.err # nil THEN FALSE
        ELSE GetAsString(p.ps, "proj").val = "longlat"

\* isGeographicSystem(proj4)
isGeographicSystem(proj4) ==
    LET p == NewProjString(proj4)
    IN  IF p.err # nil THEN FALSE
        ELSE GetAsString(p.ps, "proj").val \in GeographicAliases

NoConv == [ok |-> FALSE]

\* newConversion dropping the error of core.NewSystem: it returns the nil
\* conversion with a nil error
newConversionDropsError(ps, s) ==
    IF s.err # nil \/ ~IsConvertLPToXY(s.desc)
    THEN [err |-> nil, conv |-> NoConv, newSystemCalls |-> 1,
          lookups |-> s.lookups]
    ELSE [err |-> nil,
          conv |-> [ok |-> TRUE, projString |-> ps, system |-> s.system,
                    operation |-> s.op],
          newSystemCalls |-> 1, lookups |-> s.lookups]

\* newConversion, lines 187-203: after core.NewSystem
newConversionSystem(ps, s) ==
    IF s.err # nil
    THEN [err |-> s.err, conv |-> NoConv, newSystemCalls |-> 1,
          lookups |-> s.lookups]
    ELSE IF ~IsConvertLPToXY(s.desc)
    THEN [err |-> ErrNotSupported, conv |-> NoConv, newSystemCalls |-> 1,
          lookups |-> s.lookups]
    ELSE [err |-> nil,
          conv |-> [ok |-> TRUE, projString |-> ps, system |-> s.system,
                    operation |-> s.op],
          newSystemCalls |-> 1, lookups |-> s.lookups]


\* newConversion(proj4): (conv, err), with the calls of core.NewSystem and the
\* table lookups it made
newConversion(proj4, reg) ==
    IF NewProjString(proj4).err # nil
    THEN [err |-> NewProjString(proj4).err, conv |-> NoConv,
          newSystemCalls |-> 0, lookups |-> 0]
    ELSE newConversionSystem(NewProjString(proj4).ps,
                             NewSystem(NewProjString(proj4).ps, reg))

\* conv.converter.Forward(lp): the dispatch on the operation's family
Forward(operation, lp) ==
    IF operation.family = "wintri" THEN WintriForward(operation, lp)
    ELSE LCCForward(operation, lp)

\* conv.converter.Inverse(xy): the dispatch on the operation's family
ConverterInverse(operation, xy) ==
    IF operation.family = "wintri" THEN WintriInverse(operation, xy)
    ELSE LCCInverse(operation, xy)

\* a returned ([]float64, error); hasResult is FALSE for the nil slice
Returned(result, err) == [hasResult |-> TRUE, result |-> result, err |-> err]
Failed(err) == [hasResult |-> FALSE, result |-> <<>>, err |-> err]
NoReturn == [hasResult |-> FALSE, result |-> <<>>, err |-> "running"]

\* make([]float64, n)
MakeArray(n) == [j \in 1..n |-> 0]

\* result := make([]float64, len(input)); copy(result, input)
CopyOf(input) == [j \in 1..Len(input) |-> input[j]]

\* output[i] = xy.X; output[i+1] = xy.Y  (i counts from 0)
convertStore(output, i, xy) ==
    [output EXCEPT ![i + 1] = xy.X, ![i + 2] = xy.Y]

\* lp.Lam = support.DDToR(input[i]); lp.Phi = support.DDToR(input[i+1])
convertLoad(input, i) == [Lam |-> DDToR(input[i + 1]), Phi |-> DDToR(input[i + 2])]

\* xy.X = input[i]; xy.Y = input[i+1]
inverseLoad(input, i) == [X |-> input[i + 1], Y |-> input[i + 2]]

\* output[i] = support.RToDD(l); output[i+1] = support.RToDD(p)
inverseStore(output, i, lp) ==
    [output EXCEPT ![i + 1] = RToDD(lp.Lam), ![i + 2] = RToDD(lp.Phi)]

(***************************************************************************)
(* The definition strings and the point arrays the calls are made with     *)
(***************************************************************************)
\* "+proj=longlat", "+proj=latlong +ellps=GRS80 +no_defs", "+proj=latlon",
\* "+proj=doesnotexist +proj=lonlat" (the last +proj wins)
DefLongLat == <<Str("proj", "longlat")>>
DefLatLong == <<Str("proj", "latlong"), Str("ellps", "GRS80"), Str("no_defs", "")>>
DefLatLon == <<Str("proj", "latlon")>>
DefLonLat == <<Str("proj", "doesnotexist"), Str("proj", "lonlat")>>
\* "+proj=doesnotexist +ellps=GRS80", "+ellps=GRS80", "+proj=lcc + +ellps=GRS80"
DefUnknown == <<Str("proj", "doesnotexist"), Str("ellps", "GRS80")>>
DefNoProj == <<Str("ellps", "GRS80")>>
DefMalformed == <<Str("proj", "lcc"), EmptyToken, Str("ellps", "GRS80")>>
\* "+proj=wintri +a=6400000", "+proj=wintri +a=6400000 +lat_1=90", "+proj=wintri"
DefWintri == <<Str("proj", "wintri"), Num("a", 6400)>>
DefWintri90 == <<Str("proj", "wintri"), Num("a", 6400), Num("lat_1", 900000)>>
DefWintriNoEllps == <<Str("proj", "wintri")>>
\* "+proj=wintri +ellps=GRS80"
DefWintriGRS80 == <<Str("proj", "wintri"), Str("ellps", "GRS80")>>
\* "+proj=lcc +ellps=GRS80 +lat_1=0.5 +lat_2=2" (builtins.gie:2251)
DefLCCGie ==
    <<Str("proj", "lcc"), Str("ellps", "GRS80"), Num("lat_1", 5000),
      Num("lat_2", 20000)>>
\* "+proj=lcc +ellps=GRS80 +lat_0=0 +lon_0=0 +lat_2=60": no lat_1
DefLCCNoLat1 ==
    <<Str("proj", "lcc"), Str("ellps", "GRS80"), Num("lat_0", 0),
      Num("lon_0", 0), Num("lat_2", 600000)>>
\* "+proj=lcc +ellps=GRS80 +lat_1=30 +lat_2=60 +lat_0=0 +lon_0=0"
DefLCC ==
    <<Str("proj", "lcc"), Str("ellps", "GRS80"), Num("lat_1", 300000),
      Num("lat_2", 600000), Num("lat_0", 0), Num("lon_0", 0)>>
\* "... +lat_0=45 +lon_0=10 +x_0=1000 +y_0=2000"
DefLCCOrigin ==
    <<Str("proj", "lcc"), Str("ellps", "GRS80"), Num("lat_1", 300000),
      Num("lat_2", 600000), Num("lat_0", 450000), Num("lon_0", 100000),
      Num("x_0", 10000000), Num("y_0", 20000000)>>
\* "+proj=lcc +a=6378137 +b=3000000 +lat_1=30 +lat_2=60 +lat_0=0 +lon_0=0"
DefLCCFlat ==
    <<Str("proj", "lcc"), Num("a", 6378), Num("b", 3000), Num("lat_1", 300000),
      Num("lat_2", 600000), Num("lat_0", 0), Num("lon_0", 0)>>
\* "+proj=lcc +ellps=GRS80 +lat_1=30 +lat_0=0 +lon_0=0": one standard parallel
DefLCCOneParallel ==
    <<Str("proj", "lcc"), Str("ellps", "GRS80"), Num("lat_1", 300000),
      Num("lat_0", 0), Num("lon_0", 0)>>

GeographicDefinitions == {DefLongLat, DefLatLong, DefLatLon, DefLonLat}
UnresolvedDefinitions == {DefUnknown, DefNoProj, DefMalformed}
WintriDefinitions == {DefWintri, DefWintri90, DefWintriNoEllps, DefWintriGRS80}
LCCDefinitions ==
    {DefLCCGie, DefLCCNoLat1, DefLCC, DefLCCOrigin, DefLCCFlat, DefLCCOneParallel}
Definitions ==
    GeographicDefinitions \cup UnresolvedDefinitions \cup WintriDefinitions
        \cup LCCDefinitions

\* the longest array holds MaxPairs points (and one more value when odd)
MaxPairs == 2

\* lon/lat points in degrees
ConvertPoints(d) ==
    IF d = DefWintri90 THEN {<<0, 0>>, <<0, 300000>>}
    ELSE IF d \in WintriDefinitions
    THEN {<<0, 0>>, <<450000, 300000>>, <<-1200000, -400000>>}
    ELSE IF d \in LCCDefinitions
    THEN {<<20000, 10000>>, <<450000, 300000>>, <<-1000000, 500000>>}
    ELSE {<<20000, 10000>>, <<-1800000, 900000>>}

\* x/y points in projected units
InversePoints(d) ==
    IF d = DefWintri90 THEN {<<0, 0>>, <<0, 16000>>, <<0, 1000000>>}
    ELSE IF d \in WintriDefinitions
    THEN {<<0, 0>>, <<6053, 5298>>, <<130000, 0>>, <<1000000, 1000000>>}
    ELSE IF d \in LCCDefinitions
    THEN {<<0, 0>>, <<6455, 7651>>, <<-8274, 15145>>}
    ELSE {<<20000, 10000>>, <<-1800000, 900000>>}

\* the flat arrays of at most n points of P
RECURSIVE Flat(_, _)
Flat(P, n) ==
    IF n = 0 THEN {<<>>}
    ELSE LET shorter == Flat(P, n - 1)
         IN  shorter \cup {a \o q : a \in shorter, q \in P}

\* an odd array: one more value
OddValue == 11 * Scale

Arrays(P) == Flat(P, MaxPairs) \cup {a \o <<OddValue>> : a \in Flat(P, MaxPairs)}

VARIABLES
    inits,          \* the init functions of package operations that have run
    registry,       \* core's operations table: family name -> description
    pc,             \* where the program stands
    stage,          \* 0 before the first call, 1 in it, 2 in the call after it
    op,             \* the exported function called: "Convert" or "Inverse"
    proj4,          \* its definition string
    input,          \* its point array
    first,          \* the input of the first call, in the call after it
    conv,           \* the conversion object of newConversion
    i,              \* the loop index of conv.convert / conv.inverse
    output,         \* their output array
    frame,          \* the locals of the running converter.Inverse
    ret,            \* what the exported function returned
    called,         \* the indexes i at which Forward / Inverse was called
    newSystemCalls, \* calls of core.NewSystem
    lookups,        \* lookups in the operations table
    calls           \* the calls goroutines make on the methods of one instance

vars ==
    <<inits, registry, pc, stage, op, proj4, input, first, conv, i, output,
      frame, ret, called, newSystemCalls, lookups, calls>>

facade == <<op, proj4, input, conv, i, output, ret, called>>

NoFrame == [status |-> "none", family |-> "none"]

AllInits == {"Wintri.init", "LCC.init"}

Init ==
    /\ inits = {}
    /\ registry = <<>>
    /\ pc = "idle"
    /\ stage = 0
    /\ op = "none"
    /\ proj4 = <<>>
    /\ input = <<>>
    /\ first = <<>>
    /\ conv = NoConv
    /\ i = 0
    /\ output = <<>>
    /\ frame = NoFrame
    /\ ret = NoReturn
    /\ called = <<>>
    /\ newSystemCalls = 0
    /\ lookups = 0
    /\ calls = <<>>

\* operations/Wintri.go: func init()
WintriInit ==
    /\ "Wintri.init" \notin inits
    /\ inits' = inits \cup {"Wintri.init"}
    /\ registry' = RegisterConvertLPToXY(registry, "wintri", "Winkel Tripel",
                                         "NewWintri")
    /\ UNCHANGED <<pc, stage, first, frame, newSystemCalls, lookups, calls>>
    /\ UNCHANGED facade

\* operations (LCC): func init()
LCCInit ==
    /\ "LCC.init" \notin inits
    /\ inits' = inits \cup {"LCC.init"}
    /\ registry' = RegisterConvertLPToXY(registry, "lcc",
                                         "Lambert Conic Conformal (LCC)", "NewLCC")
    /\ UNCHANGED <<pc, stage, first, frame, newSystemCalls, lookups, calls>>
    /\ UNCHANGED facade

\* Convert(proj4, input), up to the loop of conv.convert
ConvertCall(d, a, nc) ==
        /\ op' = "Convert"
        /\ proj4' = d
        /\ input' = a
        /\ called' = <<>>
        /\ i' = 0
        /\ frame' = NoFrame
        /\ IF isGeographicSystem(d)
           THEN /\ ret' = Returned(CopyOf(a), nil)
                /\ pc' = "done"
                /\ UNCHANGED <<conv, output, newSystemCalls, lookups>>
           ELSE /\ newSystemCalls' = newSystemCalls + nc.newSystemCalls
                /\ lookups' = lookups + nc.lookups
                /\ conv' = nc.conv
                /\ IF nc.err # nil
                   THEN ret' = Failed(nc.err) /\ pc' = "done" /\ UNCHANGED output
                   ELSE IF ~nc.conv.ok
                   THEN /\ ret' = Failed(ErrNotInitialized)
                        /\ pc' = "done"
                        /\ UNCHANGED output
                   ELSE IF Len(a) % 2 # 0
                   THEN /\ ret' = Failed(ErrOddLonLat)
                        /\ pc' = "done"
                        /\ UNCHANGED output
                   ELSE /\ output' = MakeArray(Len(a))
                        /\ ret' = NoReturn
                        /\ pc' = "convert"

\* Inverse(proj4, input), up to the loop of conv.inverse
InverseCall(d, a, nc) ==
        /\ op' = "Inverse"
        /\ proj4' = d
        /\ input' = a
        /\ called' = <<>>
        /\ i' = 0
        /\ frame' = NoFrame
        /\ newSystemCalls' = newSystemCalls + nc.newSystemCalls
        /\ lookups' = lookups + nc.lookups
        /\ conv' = nc.conv
        /\ IF nc.err # nil
           THEN ret' = Failed(nc.err) /\ pc' = "done" /\ UNCHANGED output
           ELSE IF ~nc.conv.ok
           THEN ret' = Failed(ErrNotInitialized) /\ pc' = "done" /\ UNCHANGED output
           ELSE IF Len(a) % 2 # 0
           THEN ret' = Failed(ErrOddXY) /\ pc' = "done" /\ UNCHANGED output
           ELSE /\ output' = MakeArray(Len(a))
                /\ ret' = NoReturn
                /\ pc' = "inverse"

\* the operations table filled on the first call instead of at start-up
InitializedLazily == TRUE

\* package proj imports operations for its init functions, which therefore
\* have all run before a function of proj can be called
Initialized == inits = AllInits

\* a caller calls Convert
Convert ==
    /\ pc = "idle"
    /\ Initialized
    /\ \E d \in Definitions : \E a \in Arrays(ConvertPoints(d)) : ConvertCall(d, a, newConversion(d, registry))
    /\ stage' = 1
    /\ UNCHANGED <<inits, registry, first, calls>>

\* a caller calls Inverse
Inverse ==
    /\ pc = "idle"
    /\ Initialized
    /\ \E d \in Definitions : \E a \in Arrays(InversePoints(d)) :
           InverseCall(d, a, newConversion(d, registry))
    /\ stage' = 1
    /\ UNCHANGED <<inits, registry, first, calls>>

\* a caller hands what Convert returned to Inverse, with the same definition
RoundTrip ==
    /\ pc = "done"
    /\ stage = 1
    /\ op = "Convert"
    /\ ret.err = nil
    /\ InverseCall(proj4, ret.result, newConversion(proj4, registry))
    /\ stage' = 2
    /\ first' = input
    /\ UNCHANGED <<inits, registry, calls>>

\* what conv.convert does with the (xy, err) of conv.converter.Forward
convertResume(xy) ==
    IF xy.err # nil
    THEN ret' = Failed(xy.err) /\ pc' = "done" /\ UNCHANGED <<i, output>>
    ELSE /\ output' = convertStore(output, i, xy)
         /\ i' = i + 2
         /\ UNCHANGED <<ret, pc>>

\* conv.convert: one turn of the loop, lines 220-231
convertPair ==
    /\ pc = "convert"
    /\ i < Len(input)
    /\ convertResume(Forward(conv.operation, convertLoad(input, i)))
    /\ called' = Append(called, i)
    /\ UNCHANGED <<inits, registry, stage, op, proj4, input, first, conv, frame,
                   newSystemCalls, lookups, calls>>

\* conv.convert: return output, nil
convertReturn ==
    /\ pc = "convert"
    /\ i >= Len(input)
    /\ ret' = Returned(output, nil)
    /\ pc' = "done"
    /\ UNCHANGED <<inits, registry, stage, op, proj4, input, first, conv, i,
                   output, frame, called, newSystemCalls, lookups, calls>>

\* conv.inverse: a turn of the loop calls conv.converter.Inverse(xy)
inversePair ==
    /\ pc = "inverse"
    /\ i < Len(input)
    /\ IF conv.operation.family = "wintri"
       THEN /\ frame' = WintriSeed(conv.operation, inverseLoad(input, i))
            /\ pc' = "Wintri.Inverse"
       ELSE /\ frame' = LCCSeed(conv.operation, inverseLoad(input, i))
            /\ pc' = "LCC.Inverse"
    /\ called' = Append(called, i)
    /\ UNCHANGED <<inits, registry, stage, op, proj4, input, first, conv, i,
                   output, ret, newSystemCalls, lookups, calls>>

\* conv.inverse skipping a pair whose Inverse failed instead of returning
inverseSkipsFailure(lp) ==
    /\ output' = IF lp.err # nil THEN output ELSE inverseStore(output, i, lp)
    /\ i' = i + 2
    /\ pc' = "inverse"
    /\ UNCHANGED ret
    /\ UNCHANGED <<inits, registry, stage, op, proj4, input, first, conv, frame,
                   called, newSystemCalls, lookups, calls>>

\* what conv.inverse does with the (lp, err) of conv.converter.Inverse
inverseResume(lp) ==
    /\ IF lp.err # nil
       THEN ret' = Failed(lp.err) /\ pc' = "done" /\ UNCHANGED <<i, output>>
       ELSE /\ output' = inverseStore(output, i, lp)
            /\ i' = i + 2
            /\ pc' = "inverse"
            /\ UNCHANGED ret
    /\ UNCHANGED <<inits, registry, stage, op, proj4, input, first, conv, frame,
                   called, newSystemCalls, lookups, calls>>

\* Wintri.Inverse: one iteration of its loop
WintriIterate ==
    /\ pc = "Wintri.Inverse"
    /\ ~WintriLoopDone(frame)
    /\ frame' = WintriIteration(conv.operation, frame)
    /\ UNCHANGED <<inits, registry, pc, stage, first, newSystemCalls, lookups, calls>>
    /\ UNCHANGED facade

\* Wintri.Inverse returns
WintriReturn ==
    /\ pc = "Wintri.Inverse"
    /\ WintriLoopDone(frame)
    /\ inverseResume(WintriResult(frame))

\* LCC.Inverse: one latitude correction
LCCIterate ==
    /\ pc = "LCC.Inverse"
    /\ ~LCCLoopDone(frame)
    /\ frame' = LCCIteration(conv.operation, frame)
    /\ UNCHANGED <<inits, registry, pc, stage, first, newSystemCalls, lookups, calls>>
    /\ UNCHANGED facade

\* LCC.Inverse returns
LCCReturn ==
    /\ pc = "LCC.Inverse"
    /\ LCCLoopDone(frame)
    /\ inverseResume(LCCResult(frame))

\* conv.inverse: return output, nil
inverseReturn ==
    /\ pc = "inverse"
    /\ i >= Len(input)
    /\ ret' = Returned(output, nil)
    /\ pc' = "done"
    /\ UNCHANGED <<inits, registry, stage, op, proj4, input, first, conv, i,
                   output, frame, called, newSystemCalls, lookups, calls>>

Next ==
    \/ WintriInit
    \/ LCCInit
    \/ Convert
    \/ Inverse
    \/ RoundTrip
    \/ convertPair
    \/ convertReturn
    \/ inversePair
    \/ WintriIterate
    \/ WintriReturn
    \/ LCCIterate
    \/ LCCReturn
    \/ inverseReturn

Spec == Init /\ [][Next]_vars
(***************************************************************************)
(* Goroutines calling Forward and Inverse of one instance concurrently.    *)
(* conv holds the instance, built from proj4 before the calls begin; each  *)
(* call is [kind, arg, coord, status, frame, result]: the method, the      *)
(* coordinate the caller passed, the coordinate the pointer refers to now, *)
(* where the call stands ("ready", "loop", "returned"), the locals of      *)
(* Inverse and what the method returned.  A step is one Forward or one     *)
(* loop iteration of Inverse.                                              *)
(***************************************************************************)
\* the number of goroutines
NumCalls == 2
Callers == 1..NumCalls

SharedDefinitions == {DefWintri, DefWintri90, DefLCC, DefLCCFlat}

\* lp in radians
SharedLP(d) ==
    IF d = DefWintri90 THEN {[Lam |-> 0, Phi |-> 5236]}
    ELSE {[Lam |-> 7854, Phi |-> 5236], [Lam |-> 349, Phi |-> 175]}

\* xy in projected units
SharedXY(d) ==
    IF d = DefWintri THEN {[X |-> 6053, Y |-> 5298]}
    ELSE IF d = DefWintri90 THEN {[X |-> 0, Y |-> 16000], [X |-> 0, Y |-> 5236]}
    ELSE IF d = DefLCC THEN {[X |-> 6455, Y |-> 7651]}
    ELSE {[X |-> 7175, Y |-> 3451]}

NoResult == [err |-> "none"]

NewCall(kind, arg) ==
    [kind |-> kind, arg |-> arg, coord |-> arg, status |-> "ready",
     frame |-> NoFrame, result |-> NoResult]

SharedCalls(d) ==
    {NewCall("Forward", lp) : lp \in SharedLP(d)}
        \cup {NewCall("Inverse", xy) : xy \in SharedXY(d)}

\* the operations table after both init functions
Registered ==
    RegisterConvertLPToXY(
        RegisterConvertLPToXY(<<>>, "wintri", "Winkel Tripel", "NewWintri"),
        "lcc", "Lambert Conic Conformal (LCC)", "NewLCC")

\* the receiver after Forward(lp): Forward assigns to its locals and to the
\* CoordXY it returns, never to a field of op
ForwardReceiver(operation, lp) == operation

\* the caller's coordinate after Forward(lp) / Inverse(xy): only read
ForwardArgument(lp) == lp
InverseArgument(xy) == xy

\* Inverse keeping its estimate in the receiver for the next call
InverseReceiverKeepsEstimate(operation, f) ==
    IF operation.family = "wintri"
    THEN [operation EXCEPT !.cosLat1 = Cos(f.phi)]
    ELSE [operation EXCEPT !.phi0 = f.lat]

\* the receiver after an iteration of Inverse that left the frame f: the
\* loops assign to phi, lam, lat and the other locals, never to a field of op
InverseReceiver(operation, f) == operation

\* Inverse up to its loop, one iteration, the loop's end and the return
InverseSeed(operation, xy) ==
    IF operation.family = "wintri" THEN WintriSeed(operation, xy)
    ELSE LCCSeed(operation, xy)

InverseIteration(operation, f) ==
    IF operation.family = "wintri" THEN WintriIteration(operation, f)
    ELSE LCCIteration(operation, f)

InverseLoopDone(operation, f) ==
    IF operation.family = "wintri" THEN WintriLoopDone(f) ELSE LCCLoopDone(f)

InverseResult(operation, f) ==
    IF operation.family = "wintri" THEN WintriResult(f) ELSE LCCResult(f)

facadeRest ==
    <<inits, registry, pc, stage, op, proj4, input, first, i, output, frame,
      ret, called, newSystemCalls, lookups>>

InitShared ==
    /\ inits = AllInits
    /\ registry = Registered
    /\ pc = "shared"
    /\ stage = 0
    /\ op = "none"
    /\ input = <<>>
    /\ first = <<>>
    /\ i = 0
    /\ output = <<>>
    /\ frame = NoFrame
    /\ ret = NoReturn
    /\ called = <<>>
    /\ newSystemCalls = 1
    /\ lookups = 1
    /\ \E d \in SharedDefinitions :
          /\ proj4 = d
          /\ conv = newConversion(d, Registered).conv
          /\ calls \in [Callers -> SharedCalls(d)]

\* goroutine p: xy, err := op.Forward(lp)
SharedForward(p) ==
    /\ calls[p].status = "ready"
    /\ calls[p].kind = "Forward"
    /\ calls' = [calls EXCEPT
                   ![p].result = Forward(conv.operation, calls[p].coord),
                   ![p].coord = ForwardArgument(calls[p].coord),
                   ![p].status = "returned"]
    /\ conv' = [conv EXCEPT
                  !.operation = ForwardReceiver(conv.operation, calls[p].coord)]
    /\ UNCHANGED facadeRest

\* goroutine p enters op.Inverse(xy) and reaches its loop
SharedInverseBegin(p) ==
    /\ calls[p].status = "ready"
    /\ calls[p].kind = "Inverse"
    /\ calls' = [calls EXCEPT
                   ![p].frame = InverseSeed(conv.operation, calls[p].coord),
                   ![p].coord = InverseArgument(calls[p].coord),
                   ![p].status = "loop"]
    /\ UNCHANGED conv
    /\ UNCHANGED facadeRest

\* the shared step of an iteration: the frame f1 it leaves
SharedIterated(p, f1) ==
    /\ calls' = [calls EXCEPT ![p].frame = f1]
    /\ conv' = [conv EXCEPT !.operation = InverseReceiver(conv.operation, f1)]
    /\ UNCHANGED facadeRest

\* goroutine p runs one iteration of the loop of op.Inverse
SharedInverseStep(p) ==
    /\ calls[p].status = "loop"
    /\ ~InverseLoopDone(conv.operation, calls[p].frame)
    /\ SharedIterated(p, InverseIteration(conv.operation, calls[p].frame))

\* goroutine p returns from op.Inverse
SharedInverseReturn(p) ==
    /\ calls[p].status = "loop"
    /\ InverseLoopDone(conv.operation, calls[p].frame)
    /\ calls' = [calls EXCEPT
                   ![p].result = InverseResult(conv.operation, calls[p].frame),
                   ![p].status = "returned"]
    /\ UNCHANGED conv
    /\ UNCHANGED facadeRest

NextShared ==
    \E p \in Callers :
        \/ SharedForward(p)
        \/ SharedInverseBegin(p)
        \/ SharedInverseStep(p)
        \/ SharedInverseReturn(p)

SpecShared == InitShared /\ [][NextShared]_vars

(***************************************************************************)
(* Properties of the facade                                                *)
(***************************************************************************)
Done == pc = "done"
Odd(a) == Len(a) % 2 = 1
Even(a) == Len(a) % 2 = 0

\* the indexes i of the loops `for i := 0; i < len(a); i += 2`
PairIndexes(a) == {2 * k : k \in 0..((Len(a) \div 2) - 1)}

\* the n first of them, in order
IndexSeq(n) == [k \in 1..n |-> 2 * (k - 1)]

Least(S) == CHOOSE j \in S : \A m \in S : j <= m

\* the error of the transform of the input pair at index j
PairError(j) ==
    IF op = "Convert" THEN Forward(conv.operation, convertLoad(input, j)).err
    ELSE ConverterInverse(conv.operation, inverseLoad(input, j)).err

\* the two output values of the transform of the input pair at index j
ForwardPair(xy) == <<xy.X, xy.Y>>
InversePair(lp) == <<RToDD(lp.Lam), RToDD(lp.Phi)>>
TransformedPair(j) ==
    IF op = "Convert"
    THEN ForwardPair(Forward(conv.operation, convertLoad(input, j)))
    ELSE InversePair(ConverterInverse(conv.operation, inverseLoad(input, j)))

\* C1: a call with an odd-length array fails with the argument-count error
\* of the function called and returns no points, whatever the definition
C1_OddLengthFails ==
    (Done /\ Odd(input)) =>
        /\ ~ret.hasResult
        /\ ret.err = IF op = "Convert" THEN ErrOddLonLat ELSE ErrOddXY

\* C2: Convert with a geographic alias and an even-length array returns nil
\* error and an array equal to the input, element for element, with no System
\* constructed and no Forward called
C2_GeographicIdentity ==
    (Done /\ op = "Convert" /\ proj4 \in GeographicDefinitions /\ Even(input)) =>
        /\ ret.err = nil
        /\ ret.hasResult
        /\ Len(ret.result) = Len(input)
        /\ \A j \in 1..Len(input) : ret.result[j] = input[j]
        /\ newSystemCalls = 0
        /\ lookups = 0
        /\ ~conv.ok
        /\ called = <<>>

C2_Witness ==
    /\ Done /\ op = "Convert" /\ proj4 = DefLatLong
    /\ Len(input) = 4 /\ ret.hasResult /\ ret.result = input

\* C3: Inverse with a geographic alias and an even-length array returns the
\* identity copy of its input, as Convert does
C3_InverseMirrorsConvert ==
    (Done /\ op = "Inverse" /\ proj4 \in GeographicDefinitions /\ Even(input)) =>
        /\ ret.err = nil
        /\ ret.hasResult
        /\ ret.result = input

\* C4: a call with a resolved projected definition and an even-length array
\* returns either an error and no array, the pairs up to the first failing
\* one having been transformed and none after it, or nil error and an array
\* of len(input) values whose pair at i is the transform of the input pair at i
C4_AllOrNothing ==
    (Done /\ conv.ok /\ Even(input)) =>
        LET failing == {j \in PairIndexes(input) : PairError(j) # nil}
        IN  IF failing = {}
            THEN /\ ret.hasResult
                 /\ ret.err = nil
                 /\ Len(ret.result) = Len(input)
                 /\ \A j \in PairIndexes(input) :
                        <<ret.result[j + 1], ret.result[j + 2]>> = TransformedPair(j)
                 /\ called = IndexSeq(Len(input) \div 2)
            ELSE /\ ~ret.hasResult
                 /\ ret.err = PairError(Least(failing))
                 /\ called = IndexSeq((Least(failing) \div 2) + 1)

\* Inverse fails on the first of two pairs: the second is never transformed
C4_Witness ==
    /\ Done /\ op = "Inverse" /\ conv.ok /\ Len(input) = 4
    /\ ret.err = ToleranceCondition /\ ~ret.hasResult /\ called = <<0>>

\* the set-up error of a definition that cannot be resolved
SetupError(d) ==
    IF d = DefMalformed THEN MalformedParameter ELSE UnsupportedProjection

C6_LCCDefaultsOrigin == (Done /\ proj4 = DefLCCGie) => conv.ok

\* the lcc definitions lccSetup accepts, with two standard parallels
AcceptedLCC == {DefLCC, DefLCCOrigin}

\* half a degree
RoundTripTolerance == Scale \div 2

\* C7: Inverse of what Convert returned for an accepted lcc definition is the
\* input of Convert within the tolerance, whatever lon_0, lat_0, x_0 and y_0
C7_LCCRoundTrip ==
    (Done /\ stage = 2 /\ proj4 \in AcceptedLCC /\ ret.err = nil) =>
        \A j \in 1..Len(first) : Abs(ret.result[j] - first[j]) <= RoundTripTolerance

\* e = sqrt(es), as e * e = es within the resolution of the model's products
EccentricityTolerance == Scale \div 500

EllipsoidInvariant(ell) == Abs(MulS(ell.E, ell.E) - ell.Es) <= EccentricityTolerance

\* C11: the System of a constructed operation has e = sqrt(es), and the
\* System of a Winkel Tripel operation is a sphere, es = e = 0
C11_EllipsoidInvariant ==
    conv.ok =>
        /\ EllipsoidInvariant(conv.system.Ellipsoid)
        /\ EllipsoidInvariant(conv.operation.System.Ellipsoid)
        /\ conv.operation.family = "wintri" =>
               /\ conv.system.Ellipsoid.Es = 0
               /\ conv.system.Ellipsoid.E = 0

(***************************************************************************)
(* Properties of the iterative inverses                                    *)
(***************************************************************************)
InWintri == pc = "Wintri.Inverse"
InLCC == pc = "LCC.Inverse"

\* C8: the estimate of Wintri.Inverse is in range at the start of every
\* iteration and when it is returned
C8_EstimateInRange ==
    InWintri => Abs(frame.phi) <= HALFPI /\ Abs(frame.lam) <= PI

\* C9: Wintri.Inverse begins at most maxIter iterations, a reset being one of
\* them, and LCC.Inverse at most ten corrections; when the bound is used up
\* without the test being met the last estimate is returned with nil error
C9_BoundedIterations ==
    /\ InWintri =>
          /\ frame.iter <= maxIter
          /\ frame.iter = frame.resets + frame.steps
                            + (IF frame.status = "loop" THEN 0 ELSE 1)
          /\ (frame.status = "loop" /\ frame.iter = maxIter) =>
                /\ WintriLoopDone(frame)
                /\ WintriResult(frame) =
                       [err |-> nil, hasLP |-> TRUE, Lam |-> frame.lam,
                        Phi |-> frame.phi]
    /\ InLCC =>
          /\ frame.iter <= lccMaxIter
          /\ (frame.status = "loop" /\ frame.iter = lccMaxIter) =>
                /\ LCCLoopDone(frame)
                /\ LCCResult(frame) =
                       [err |-> nil, hasLP |-> TRUE, Lam |-> frame.lon,
                        Phi |-> frame.lat]

\* Wintri.Inverse has used up its iterations, resets and steps among them
C9_Witness ==
    /\ InWintri /\ frame.status = "loop" /\ frame.iter = maxIter
    /\ frame.resets > 0 /\ frame.steps > 0

\* the residual of the estimate of the frame, and the determinant there
FrameXY == WintriForward(conv.operation, [Phi |-> frame.phi, Lam |-> frame.lam])
FrameResidual == WintriResidual(frame, FrameXY)
FrameDet == WintriJacobian(conv.operation, frame, FrameXY, WintriDelta(frame)).det

\* C10: an iteration of Wintri.Inverse ends the call with an error exactly
\* when its residual is neither converged nor divergent and the determinant
\* is below the threshold; the error is ToleranceCondition and no coordinate
\* comes with it; the call returns an error in no other way
C10_ErrorIffSingular ==
    [][/\ (InWintri /\ ~WintriLoopDone(frame)) =>
            /\ frame'.status = "error" <=>
                   /\ ~WintriConverged(FrameResidual)
                   /\ ~WintriDiverged(FrameResidual)
                   /\ Abs(FrameDet) < detMin
            /\ frame'.status = "error" =>
                   /\ frame'.err = ToleranceCondition
                   /\ ~WintriResult(frame').hasLP
                   /\ WintriResult(frame').err = ToleranceCondition
       /\ (InWintri /\ WintriLoopDone(frame)) =>
            /\ frame.status = "error" =>
                   /\ pc' = "done" /\ ret'.err = ToleranceCondition
                   /\ ~ret'.hasResult
            /\ frame.status # "error" => pc' = "inverse" /\ ret' = ret
      ]_vars

C10_Witness ==
    /\ InWintri /\ frame.status = "error" /\ frame.err = ToleranceCondition
    /\ frame.iter >= 1 /\ frame.resets = 0
(***************************************************************************)
(* Properties of concurrent calls on one instance                          *)
(***************************************************************************)
\* the instance as newConversion built it
Built == newConversion(proj4, registry).conv

\* what the call returns when it runs alone on the instance as built
Alone(call) ==
    IF call.kind = "Forward" THEN Forward(Built.operation, call.arg)
    ELSE ConverterInverse(Built.operation, call.arg)

\* C12: whatever the interleaving of the calls, the instance with its
\* constants and its System is as construction left it, the coordinate each
\* caller passed is unchanged, and each call returns what it returns alone
C12_CallsIndependent ==
    pc = "shared" =>
        /\ conv = Built
        /\ \A p \in Callers :
              /\ calls[p].coord = calls[p].arg
              /\ calls[p].status = "returned" => calls[p].result = Alone(calls[p])

\* two calls of Inverse in the middle of their loops, and a third call or
\* one of the two having run in between
C12_Witness ==
    /\ pc = "shared"
    /\ calls[1].status = "loop" /\ calls[1].frame.iter >= 1
    /\ calls[2].status = "loop" /\ calls[2].frame.iter >= 1
    /\ calls[1].arg # calls[2].arg
(***************************************************************************)
(* Properties of the operations table                                      *)
(***************************************************************************)
FamilyNames == {"wintri", "lcc"}

RegisteredOnce ==
    /\ DOMAIN registry = FamilyNames
    /\ \A name \in FamilyNames : registry[name].count = 1

\* C13: once a lookup in the operations table has been made, every init
\* function has completed, "wintri" and "lcc" are each registered exactly
\* once, and no step registers anything any more
C13_RegisteredBeforeLookup ==
    /\ [](lookups > 0 => (inits = AllInits /\ RegisteredOnce))
    /\ [][lookups > 0 => (registry' = registry /\ inits' = inits)]_vars

\* a call has looked a family up, found it and gone on to convert
C13_Witness ==
    /\ lookups > 0
    /\ conv.ok
    /\ RegisteredOnce
    /\ pc \in {"convert", "inverse"}
(***************************************************************************)
(* Properties of the LCC constants                                         *)
(***************************************************************************)
Finite(x) == x # NaN

\* C14: the constants n, F and rho0 of every lcc operation lccSetup accepted
\* are finite numbers, with one standard parallel (lat_2 absent) as with
\* two, and what Convert and Inverse return from it holds no NaN
C14_LCCFinite ==
    (conv.ok /\ conv.operation.family = "lcc") =>
        /\ Finite(conv.operation.n)
        /\ Finite(conv.operation.F)
        /\ Finite(conv.operation.rho0)
        /\ (Done /\ ret.hasResult) =>
               \A j \in 1..Len(ret.result) : Finite(ret.result[j])
====

